---- MODULE Spec2Model ----
(***************************************************************************)
(* Model of ustl's binary output cursor (ostream, mostream.h) and of the   *)
(* text stream built on it (ostringstream, sostream.cc).                   *)
(*                                                                         *)
(* The stream is one object: m_Pos and the view size are the ostream part, *)
(* m_Buffer, m_Flags and m_Base the ostringstream part.  Every operation   *)
(* is a function from a machine record to a machine record; an action      *)
(* applies one operation to the current state.                             *)
(***************************************************************************)
EXTENDS Integers, Sequences, FiniteSets, TLC

\* ---------------------------------------------------------------- bounds
MaxCap == 2
MaxLen == 2
MaxInit == 1
\* the largest region a binary cursor is bound to
MaxRegion == 4
\* the room explored for boolean writes
MaxBool == 6
\* the room explored for numeric writes
MaxNum == 64
\* widths and precisions have up to MaxDigits decimal digits
MaxDigits == 6

\* sprintf_iwrite: the sizes of its stack buffers buffer and fmt
c_BufSize == 64
c_FmtStrSize == 16

\* ------------------------------------------------------------- constants
c_DefaultAlignment == 4

\* fmtflags enumerators used by iwrite (fmtflags); m_Flags is the set of the
\* enumerators whose bit is set
oct == "oct"
dec == "dec"
hex == "hex"
left == "left"
right == "right"
scientific == "scientific"

FmtFlags == {oct, dec, hex, left, right, scientific}

\* bytes: letters, the terminator written by vsnprintf, and a marker for a
\* byte whose value is indeterminate (storage that was not preserved)
NUL == 0
Indet == -1

VARIABLES m_Pos, m_Size, m_Buffer, m_Flags, m_Base, m_Precision, m_Width,
          fmt, last

vars == <<m_Pos, m_Size, m_Buffer, m_Flags, m_Base, m_Precision, m_Width,
          fmt, last>>

min(a, b) == IF a < b THEN a ELSE b

Fill(n, b) == [i \in 1..n |-> b]

\* the inputs: the n bytes "AB..." handed to a write, the n bytes "xx..." of
\* the string a stream is constructed from or assigned
Text(n) == [i \in 1..n |-> 65 + ((i + 1) % 2)]
Content(n) == Fill(n, 120)

\* ------------------------------------------------------- machine records
\* pos, vsize: ostream's m_Pos and the size of its view (memlink::size()).
\* bsize, bcap, data, own: m_Buffer's size, its storage, whether it owns it.
\* out: how the call ended ("ok", "fatal" for a failed assert, "bounds" for
\* a stream_bounds_exception, whose arguments are exc); rv: the value
\* returned; ovf, rend, copies: the calls of overflow, of vsnprintf and of
\* ostream::write made by the current operation, empty: those of the
\* calls of ostream::write that copied no byte.  fmt: the format string
\* that the last sprintf_iwrite built in its stack buffer.
Machine ==
    [pos |-> m_Pos, vsize |-> m_Size,
     bsize |-> m_Buffer.size, bcap |-> m_Buffer.cap,
     data |-> m_Buffer.data, own |-> m_Buffer.own,
     flags |-> m_Flags, base |-> m_Base,
     precision |-> m_Precision, width |-> m_Width, fmt |-> fmt,
     out |-> "ok", exc |-> <<>>, ovf |-> 0, rend |-> 0, copies |-> 0,
     empty |-> 0, rv |-> 0]

\* ostream::ostream (void), memlink::memlink (void)
EmptyStream ==
    [pos |-> 0, vsize |-> 0, bsize |-> 0, bcap |-> 0, data |-> <<>>,
     own |-> TRUE, flags |-> {}, base |-> 10,
     precision |-> 2, width |-> 0, fmt |-> <<>>,
     out |-> "ok", exc |-> <<>>, ovf |-> 0, rend |-> 0, copies |-> 0,
     empty |-> 0, rv |-> 0]

pos(m) == m.pos

\* size() - pos(); the unsigned subtraction does not wrap while pos <= size
remaining(m) == m.vsize - m.pos

\* seek without its assert
seek_unchecked(m, newPos) == [m EXCEPT !.pos = newPos]

seek(m, newPos) ==
    IF newPos <= m.vsize
    THEN [m EXCEPT !.pos = newPos]
    ELSE [m EXCEPT !.out = "fatal"]

skip(m, nBytes) == seek(m, pos(m) + nBytes)

aligned(m, grain) == pos(m) % grain = 0

Align(n, grain) == ((n + grain - 1) \div grain) * grain

\* align that always moves on to the next multiple of the grain
align_next(m, grain) == seek(m, (pos(m) \div grain + 1) * grain)

align(m, grain) == seek(m, Align(pos(m), grain))

\* stores bytes at offsets [at, at + Len(bytes)) of the storage
Store(data, at, bytes) ==
    [i \in 1..Len(data) |->
        IF i > at /\ i <= at + Len(bytes) THEN bytes[i - at] ELSE data[i]]

\* ostream::write (const void*, size_t)
ostream_write(m, bytes) ==
    IF Len(bytes) > remaining(m)
    THEN [m EXCEPT !.out = "fatal"]
    ELSE [m EXCEPT !.data = Store(m.data, m.pos, bytes),
                   !.pos = m.pos + Len(bytes),
                   !.copies = m.copies + 1,
                   !.empty = m.empty + (IF Len(bytes) = 0 THEN 1 ELSE 0)]

\* ostream::iwrite<T> without its alignment assert
ostream_iwrite_unaligned(m, v) ==
    IF ~(remaining(m) >= Len(v))
    THEN [m EXCEPT !.out = "fatal"]
    ELSE skip([m EXCEPT !.data = Store(m.data, m.pos, v)], Len(v))

\* ostream::iwrite<T>, v given as the sizeof(T) bytes of its representation
ostream_iwrite(m, v) ==
    LET sz == Len(v) IN
    IF ~aligned(m, IF sz < c_DefaultAlignment THEN sz ELSE c_DefaultAlignment)
    THEN [m EXCEPT !.out = "fatal"]
    ELSE IF ~(remaining(m) >= sz)
    THEN [m EXCEPT !.out = "fatal"]
    ELSE skip([m EXCEPT !.data = Store(m.data, m.pos, v)], sz)

\* ------------------------------------------------------------ ByteBuffer
\* reserve (new_capacity, preserve_existing).  keep is the outcome of an
\* allocation that was not asked to preserve: the old bytes either survive
\* or are indeterminate.  A buffer linked to an external region is not
\* resizable: reserve and resize leave it as it is.
reserve(m, newCap, preserve, keep) ==
    IF ~m.own \/ newCap <= m.bcap
    THEN m
    ELSE [m EXCEPT !.bcap = newCap,
                   !.data = (IF preserve \/ keep THEN m.data
                             ELSE Fill(m.bcap, Indet))
                            \o Fill(newCap - m.bcap, Indet)]

resize(m, newSize) ==
    IF ~m.own
    THEN m
    ELSE [reserve(m, newSize, TRUE, TRUE) EXCEPT !.bsize = newSize]

\* ostream::link (m_Buffer): the view becomes the buffer's storage and size
link(m) == [m EXCEPT !.vsize = m.bsize]

\* ---------------------------------------------------------- ostringstream
\* overflow without its throw: the remaining space is returned as it is
overflow_nothrow(m, n, keep) ==
    LET m0 == [m EXCEPT !.ovf = m.ovf + 1]
        m1 == IF n > remaining(m0)
              THEN LET oldPos == pos(m0)
                   IN seek(link(resize(reserve(m0, oldPos + n, FALSE, keep),
                                       oldPos + n)), oldPos)
              ELSE m0
    IN IF m1.out # "ok" THEN m1
       ELSE [m1 EXCEPT !.rv = remaining(m1)]

\* overflow that grows the buffer to n bytes, not to oldPos + n
overflow_to_n(m, n, keep) ==
    LET m0 == [m EXCEPT !.ovf = m.ovf + 1]
        m1 == IF n > remaining(m0)
              THEN LET oldPos == pos(m0)
                   IN seek(link(resize(reserve(m0, n, FALSE, keep), n)),
                           oldPos)
              ELSE m0
    IN IF m1.out # "ok" THEN m1
       ELSE IF n > remaining(m1)
       THEN [m1 EXCEPT !.out = "bounds",
                       !.exc = <<"write", "text", pos(m1), n, remaining(m1)>>]
       ELSE [m1 EXCEPT !.rv = remaining(m1)]

overflow(m, n, keep) ==
    LET m0 == [m EXCEPT !.ovf = m.ovf + 1]
        m1 == IF n > remaining(m0)
              THEN LET oldPos == pos(m0)
                   IN seek(link(resize(reserve(m0, oldPos + n, FALSE, keep),
                                       oldPos + n)), oldPos)
              ELSE m0
    IN IF m1.out # "ok" THEN m1
       ELSE IF n > remaining(m1)
       THEN [m1 EXCEPT !.out = "bounds",
                       !.exc = <<"write", "text", pos(m1), n, remaining(m1)>>]
       ELSE [m1 EXCEPT !.rv = remaining(m1)]

\* ostringstream::write (const void*, size_type)
write(m, buffer, keep) ==
    IF remaining(m) < Len(buffer)
    THEN LET m1 == overflow(m, Len(buffer), keep)
         IN IF m1.out # "ok" THEN m1
            ELSE IF m1.rv < Len(buffer) THEN m1
            ELSE ostream_write(m1, buffer)
    ELSE ostream_write(m, buffer)

RECURSIVE write_buffer_loop(_, _, _, _, _)
\* one evaluation of the loop condition of write_buffer and, when it holds,
\* of the loop body
write_buffer_loop(m, buf, written, btw, keep) ==
    LET w == written + btw
        bufSize == Len(buf)
    IN IF m.out # "ok" \/ ~(w < bufSize) THEN m
       ELSE LET m1 == IF remaining(m) # 0 THEN m
                      ELSE overflow(m, bufSize - w, keep)
            IN IF m1.out # "ok" THEN m1
               ELSE IF remaining(m) = 0 /\ m1.rv = 0 THEN m1
               ELSE LET b == min(remaining(m1), bufSize - w)
                    IN write_buffer_loop(
                           write(m1, SubSeq(buf, w + 1, w + b), keep),
                           buf, w, b, keep)

RECURSIVE write_buffer_loop_bytewise(_, _, _, _, _)
\* the loop of write_buffer asking overflow for one byte at a time
write_buffer_loop_bytewise(m, buf, written, btw, keep) ==
    LET w == written + btw
        bufSize == Len(buf)
    IN IF m.out # "ok" \/ ~(w < bufSize) THEN m
       ELSE LET m1 == IF remaining(m) # 0 THEN m
                      ELSE overflow(m, 1, keep)
            IN IF m1.out # "ok" THEN m1
               ELSE IF remaining(m) = 0 /\ m1.rv = 0 THEN m1
               ELSE LET b == min(remaining(m1), bufSize - w)
                    IN write_buffer_loop_bytewise(
                           write(m1, SubSeq(buf, w + 1, w + b), keep),
                           buf, w, b, keep)

\* write_buffer that grows the buffer byte by byte
write_buffer_bytewise(m, buf, keep) ==
    write_buffer_loop_bytewise(m, buf, 0, 0, keep)

write_buffer(m, buf, keep) == write_buffer_loop(m, buf, 0, 0, keep)

\* c_Names of iwrite (bool): "false" and "true" as character codes
c_Names ==
    [v \in BOOLEAN |-> IF v THEN <<116, 114, 117, 101>>
                       ELSE <<102, 97, 108, 115, 101>>]

\* ostringstream::iwrite (bool): write_buffer (c_Names[v], 5 - v)
iwrite_bool(m, v, keep) ==
    LET n == 5 - (IF v THEN 1 ELSE 0)
    IN write_buffer(m, SubSeq(c_Names[v], 1, n), keep)

\* characters of a format string are strings of one character; the
\* terminating 0 is the empty string
Digits == <<"0", "1", "2", "3", "4", "5", "6", "7", "8", "9">>

\* the type strings of the numeric iwrite overloads
TypeStrs ==
    {<<"d">>, <<"u">>, <<"l", "d">>, <<"l", "u">>, <<"f">>, <<"l", "f">>,
     <<"l", "l", "d">>, <<"l", "l", "u">>}

\* numeric_limits<T>::is_integer of the overload that passes typestr
is_integer(typestr) == typestr[Len(typestr)] \in {"d", "u"}

\* encode_dec: one digit per turn of the loop, n % 10 first
RECURSIVE encode_dec(_)
encode_dec(n) ==
    <<Digits[(n % 10) + 1]>> \o
        (IF n \div 10 # 0 THEN encode_dec(n \div 10) ELSE <<>>)

\* fmtstring: the characters stored from fmt on, the terminator included
fmtstring(m, typestr, bInteger) ==
    LET s1 == <<"%">>
        s2 == IF m.width # 0 THEN s1 \o encode_dec(m.width) ELSE s1
        s3 == IF left \in m.flags THEN s2 \o <<"-">> ELSE s2
        s4 == IF ~bInteger
              THEN s3 \o <<".">> \o encode_dec(m.precision)
              ELSE s3
        s5 == s4 \o typestr
        e == IF bInteger
             THEN IF m.base = 16 THEN "X"
                  ELSE IF m.base = 8 THEN "o"
                  ELSE s5[Len(s5)]
             ELSE IF scientific \in m.flags THEN "E"
                  ELSE s5[Len(s5)]
    IN [s5 EXCEPT ![Len(s5)] = e] \o <<"">>

\* fmtstring called with the c_FmtStrSize bytes of fmt: a longer string
\* is stored beyond the array, after which the behaviour is undefined
fmtstring_into(m, typestr) ==
    LET f == fmtstring(m, typestr, is_integer(typestr))
    IN [m EXCEPT !.fmt = f,
                 !.out = IF Len(f) > c_FmtStrSize THEN "undefined" ELSE "ok"]

\* snprintf (buffer, c_BufSize, fmt, v) reporting r: a rendering of r
\* bytes of which the first c_BufSize - 1 and a terminator are stored;
\* r < 0 reports an error and leaves buffer indeterminate
snprintf(r) ==
    IF r < 0 THEN Fill(c_BufSize, Indet)
    ELSE Text(min(r, c_BufSize - 1)) \o <<NUL>>

\* sprintf_iwrite that caps the length at c_BufSize
sprintf_iwrite_cap64(m, typestr, r, keep) ==
    LET m1 == fmtstring_into(m, typestr)
        i == IF r < 0 \/ r > c_BufSize THEN c_BufSize ELSE r
    IN IF m1.out # "ok" THEN m1
       ELSE [write_buffer(m1, SubSeq(snprintf(r) \o <<Indet>>, 1, i), keep)
                EXCEPT !.rv = i]

\* sprintf_iwrite.  size_type i = snprintf (...) makes of a negative r a
\* size above every buffer size, so that min (i, c_BufSize - 1) is
\* c_BufSize - 1 for it
sprintf_iwrite(m, typestr, r, keep) ==
    LET m1 == fmtstring_into(m, typestr)
        i == IF r < 0 \/ r > c_BufSize - 1 THEN c_BufSize - 1 ELSE r
    IN IF m1.out # "ok" THEN m1
       ELSE [write_buffer(m1, SubSeq(snprintf(r), 1, i), keep)
                EXCEPT !.rv = i]

\* vsnprintf (ipos(), remaining(), fmt, args): txt is the complete rendering;
\* at most remaining() - 1 of its bytes and a terminator are stored, and the
\* length of the complete rendering is returned
vsnprintf(m, txt) ==
    LET n == remaining(m)
        k == min(Len(txt), n - 1)
    IN [m EXCEPT !.data = IF n = 0 THEN m.data
                          ELSE Store(m.data, m.pos,
                                     SubSeq(txt, 1, k) \o <<NUL>>),
                 !.rend = m.rend + 1,
                 !.rv = Len(txt)]

\* vformat that does not render again after the growth
vformat_norerender(m, txt, keep) ==
    LET m1 == vsnprintf(m, txt)
        rv == m1.rv
        m2 == IF rv >= remaining(m1) THEN overflow(m1, rv + 1, keep) ELSE m1
    IN IF m2.out # "ok" THEN m2
       ELSE [skip(m2, min(rv, remaining(m2))) EXCEPT !.rv = rv]

vformat(m, txt, keep) ==
    LET m1 == vsnprintf(m, txt)
        rv == m1.rv
        m2 == IF rv >= remaining(m1) THEN overflow(m1, rv + 1, keep) ELSE m1
        m3 == IF m2.out = "ok" /\ rv >= remaining(m1) /\ rv < m2.rv
              THEN vsnprintf(m2, txt)
              ELSE m2
    IN IF m3.out # "ok" THEN m3
       ELSE [skip(m3, min(rv, remaining(m3))) EXCEPT !.rv = rv]

\* iwrite (fmtflags) whose left and right cases only set their own flag
iwrite_fmtflags_setonly(m, f) ==
    CASE f = oct -> [m EXCEPT !.base = 8]
      [] f = dec -> [m EXCEPT !.base = 10]
      [] f = hex -> [m EXCEPT !.base = 16]
      [] OTHER -> [m EXCEPT !.flags = m.flags \cup {f}]

\* ostringstream::iwrite (fmtflags)
iwrite_fmtflags(m, f) ==
    CASE f = oct -> [m EXCEPT !.base = 8]
      [] f = dec -> [m EXCEPT !.base = 10]
      [] f = hex -> [m EXCEPT !.base = 16]
      [] f = left -> [m EXCEPT !.flags = (m.flags \cup {left}) \ {right}]
      [] f = right -> [m EXCEPT !.flags = (m.flags \cup {right}) \ {left}]
      [] OTHER -> [m EXCEPT !.flags = m.flags \cup {f}]

\* flush that truncates at the end of the view, not at the position
flush_at_size(m) == resize(m, m.vsize)

flush(m) == resize(m, pos(m))

\* string::operator= : the buffer takes the size and the bytes of s
assign(m, s) ==
    LET m1 == resize(m, Len(s))
    IN IF m1.bsize = Len(s)
       THEN [m1 EXCEPT !.data = Store(m1.data, 0, s)]
       ELSE m1

\* ostringstream::str (const string&)
str(m, s) ==
    LET m1 == link(assign(m, s))
    IN seek(m1, m1.bsize)

\* ostringstream::ostringstream (const string& v)
ctor_string(v) == link(assign(EmptyStream, v))

\* ostringstream::ostringstream (void* p, size_t n), ostringstream::link:
\* the view and m_Buffer are linked to the n bytes at p, which are not owned
ctor_mem(n) ==
    [EmptyStream EXCEPT !.vsize = n, !.bsize = n, !.bcap = n,
                        !.data = Fill(n, NUL), !.own = FALSE]

\* ------------------------------------------------------------- the state
\* last: the call that produced the current state: its name, its size
\* argument, how it ended, what it returned, the position and the remaining
\* space it started from, and the calls it made
Call(op, m0, n, f) ==
    [op |-> op, out |-> m0.out, exc |-> m0.exc,
     p0 |-> m_Pos, r0 |-> remaining(Machine), n |-> n, f |-> f,
     rv |-> IF op \in {"overflow", "vformat"} THEN m0.rv ELSE 0,
     ovf |-> m0.ovf, rend |-> m0.rend, copies |-> m0.copies,
     empty |-> m0.empty]

Installs(m0) ==
    /\ m_Pos' = m0.pos
    /\ m_Size' = m0.vsize
    /\ m_Buffer' = [size |-> m0.bsize, cap |-> m0.bcap,
                    data |-> m0.data, own |-> m0.own]
    /\ m_Flags' = m0.flags
    /\ m_Base' = m0.base
    /\ m_Precision' = m0.precision
    /\ m_Width' = m0.width
    /\ fmt' = m0.fmt

Becomes(op, m0, n) == Installs(m0) /\ last' = Call(op, m0, n, "")

Constructed(m0, n) ==
    /\ m_Pos = m0.pos
    /\ m_Size = m0.vsize
    /\ m_Buffer = [size |-> m0.bsize, cap |-> m0.bcap,
                   data |-> m0.data, own |-> m0.own]
    /\ m_Flags = m0.flags
    /\ m_Base = m0.base
    /\ m_Precision = m0.precision
    /\ m_Width = m0.width
    /\ fmt = m0.fmt
    /\ last = [op |-> "ctor", out |-> "ok", exc |-> <<>>,
               p0 |-> 0, r0 |-> 0, n |-> n, f |-> "", rv |-> 0,
               ovf |-> 0, rend |-> 0, copies |-> 0, empty |-> 0]

Init ==
    \/ \E n \in 0..MaxInit : Constructed(ctor_string(Content(n)), n)
    \/ \E n \in 0..MaxInit : Constructed(ctor_mem(n), n)

\* a fatal precondition failure ends the program, and nothing is known of
\* it after a store beyond an array
Running == last.out \notin {"fatal", "undefined"}

\* growth of the owned buffer is explored up to MaxCap bytes
Fits(n) == m_Buffer.own => m_Pos + n <= MaxCap

Seek ==
    /\ Running
    /\ \E newPos \in 0..(m_Size + 1) :
          Becomes("seek", seek(Machine, newPos), newPos)

Skip ==
    /\ Running
    /\ \E nBytes \in 0..MaxLen :
          Becomes("skip", skip(Machine, nBytes), nBytes)

AlignTo ==
    /\ Running
    /\ \E grain \in {1, 2, 4} :
          Becomes("align", align(Machine, grain), grain)

RawWrite ==
    /\ Running
    /\ \E n \in 0..MaxLen :
          Becomes("ostream::write", ostream_write(Machine, Text(n)), n)

TypedWrite ==
    /\ Running
    /\ \E sz \in {1, 2, 4} :
          Becomes("ostream::iwrite", ostream_iwrite(Machine, Text(sz)), sz)

Write ==
    /\ Running
    /\ \E n \in 0..MaxLen : \E keep \in BOOLEAN :
          /\ Fits(n)
          /\ Becomes("write", write(Machine, Text(n), keep), n)

WriteBuffer ==
    /\ Running
    /\ \E n \in 0..MaxLen : \E keep \in BOOLEAN :
          /\ Fits(n)
          /\ Becomes("write_buffer", write_buffer(Machine, Text(n), keep), n)

VFormat ==
    /\ Running
    /\ \E n \in 0..MaxLen : \E keep \in BOOLEAN :
          /\ Fits(n + 1)
          /\ Becomes("vformat", vformat(Machine, Text(n), keep), n)

Overflow ==
    /\ Running
    /\ \E n \in 0..MaxLen : \E keep \in BOOLEAN :
          /\ Fits(n)
          /\ Becomes("overflow", overflow(Machine, n, keep), n)

Flush ==
    /\ Running
    /\ Becomes("flush", flush(Machine), 0)

Str ==
    /\ Running
    /\ m_Buffer.own
    /\ \E n \in 0..MaxInit :
          Becomes("str", str(Machine, Content(n)), n)

FlagWrite ==
    /\ Running
    /\ \E f \in FmtFlags :
          LET m0 == iwrite_fmtflags(Machine, f)
          IN Installs(m0) /\ last' = Call("iwrite(fmtflags)", m0, 0, f)

Next ==
    \/ Seek \/ Skip \/ AlignTo \/ RawWrite \/ TypedWrite
    \/ Write \/ WriteBuffer \/ VFormat \/ Overflow
    \/ Flush \/ Str

Spec == Init /\ [][Next]_vars

\* the text stream with its formatting state: flag pseudo-values written
\* between raw writes, seeks and flushes
NextFlags == FlagWrite \/ WriteBuffer \/ Seek \/ Flush

SpecFlags == Init /\ [][NextFlags]_vars

\* the binary cursor over a borrowed region of up to MaxRegion bytes
InitCursor == \E n \in 0..MaxRegion : Constructed(ctor_mem(n), n)

NextCursor == Seek \/ Skip \/ AlignTo \/ RawWrite \/ TypedWrite

SpecCursor == InitCursor /\ [][NextCursor]_vars

\* boolean writes to a text stream, with the formatting state changing
BoolWrite ==
    /\ Running
    /\ \E v \in BOOLEAN : \E keep \in BOOLEAN :
          LET n == Len(c_Names[v])
              m0 == iwrite_bool(Machine, v, keep)
          IN /\ m_Buffer.own => m_Pos + n <= MaxBool
             /\ Installs(m0)
             /\ last' = Call("iwrite(bool)", m0, n,
                             IF v THEN "true" ELSE "false")

InitBool ==
    \/ \E n \in 0..MaxInit : Constructed(ctor_string(Content(n)), n)
    \/ \E n \in 0..MaxBool : Constructed(ctor_mem(n), n)

NextBool == BoolWrite \/ FlagWrite \/ Flush

SpecBool == InitBool /\ [][NextBool]_vars

\* the format-string builder applied to every formatting state: widths
\* and precisions are the uint32_t values that encode_dec takes
FieldValues == {0, 7, 12} \cup {10 ^ (d - 1) : d \in 1..MaxDigits}

Formatting(w, p, fl, b) ==
    [EmptyStream EXCEPT !.width = w, !.precision = p, !.flags = fl,
                        !.base = b]

InitFmt ==
    \E w \in FieldValues : \E p \in FieldValues :
    \E fl \in SUBSET {left, scientific} : \E b \in {8, 10, 16} :
        Constructed(Formatting(w, p, fl, b), 0)

FmtString ==
    /\ Running
    /\ \E typestr \in TypeStrs :
          LET m0 == fmtstring_into(Machine, typestr)
          IN /\ Installs(m0)
             /\ last' = Call("fmtstring", m0, 0, typestr)

SpecFmt == InitFmt /\ [][FmtString]_vars

\* numeric writes to a text stream; the length that snprintf reports is
\* below, at and above the size of the buffer, or an error
Lengths ==
    {-1, 0, c_BufSize - 2, c_BufSize - 1, c_BufSize, c_BufSize + 6}

SprintfWrite ==
    /\ Running
    /\ \E typestr \in TypeStrs : \E r \in Lengths : \E keep \in BOOLEAN :
          LET m0 == sprintf_iwrite(Machine, typestr, r, keep)
          IN /\ m_Buffer.own => m_Pos + m0.rv <= MaxNum
             /\ Installs(m0)
             /\ last' = [Call("sprintf_iwrite", m0, r, typestr)
                            EXCEPT !.rv = m0.rv]

NextNum == SprintfWrite \/ Flush

SpecNum == Init /\ [][NextNum]_vars

\* the text stream with the operations of the text stream only
NextText == Write \/ WriteBuffer \/ VFormat \/ Overflow \/ Flush \/ Str

SpecText == Init /\ [][NextText]_vars

TypeOK ==
    /\ m_Pos \in Nat
    /\ m_Size \in Nat
    /\ m_Buffer.cap = Len(m_Buffer.data)
    /\ m_Buffer.size <= m_Buffer.cap
    /\ m_Size <= m_Buffer.cap

\* ------------------------------------------------------------ properties
Bytes(from, n) == SubSeq(m_Buffer.data, from + 1, from + n)

CursorOps == {"seek", "skip", "align", "ostream::write", "ostream::iwrite"}
TextOps == {"write", "write_buffer", "vformat", "overflow", "flush"}

\* C1: after every seek, skip, align, raw or typed write, and after every
\* write, write_buffer, vformat, overflow or flush of the text stream, that
\* did not end in a fatal failure or a bounds failure, the position is
\* between 0 and the capacity of the view and remaining() is their difference.
PositionBound ==
    (last.op \in CursorOps \cup TextOps /\ last.out = "ok")
        => /\ 0 <= m_Pos
           /\ m_Pos <= m_Size
           /\ remaining(Machine) = m_Size - m_Pos
           /\ remaining(Machine) >= 0

\* a write_buffer that grew the buffer and ended at the end of the new view
PositionBoundWitness ==
    /\ last.op = "write_buffer" /\ last.out = "ok" /\ last.ovf = 1
    /\ m_Pos = m_Size /\ m_Pos > last.p0 + last.r0

\* C2: write_buffer of N bytes on an owning stream with N > capacity -
\* position ends with position = p + N, capacity >= p + N and the N input
\* bytes at [p, p + N), the bytes copied before the growth included.
GrowthCorrect ==
    (last.op = "write_buffer" /\ m_Buffer.own /\ last.n > last.r0)
        => /\ last.out = "ok"
           /\ m_Pos = last.p0 + last.n
           /\ m_Size >= last.p0 + last.n
           /\ Bytes(last.p0, last.n) = Text(last.n)

\* C3: overflow (n) with n > remaining() on an owning stream at position p
\* leaves the bytes at [0, p) as they were, the view on the buffer's storage
\* and the position at p.
OverflowPreserves ==
    [][(last'.op = "overflow" /\ m_Buffer.own /\ last'.n > m_Size - m_Pos)
          => /\ last'.out = "ok"
             /\ \A i \in 1..m_Pos : m_Buffer'.data[i] = m_Buffer.data[i]
             /\ m_Size' = m_Buffer'.size
             /\ m_Pos' = m_Pos]_vars

\* C4: write of more bytes than remain, on a stream bound to an external
\* region that cannot provide them, returns normally, stores no byte and
\* leaves the position unchanged.
RawWriteSilent ==
    [][(last'.op = "write" /\ ~m_Buffer.own /\ last'.n > m_Size - m_Pos)
          => /\ last'.out = "ok"
             /\ m_Buffer'.data = m_Buffer.data
             /\ m_Pos' = m_Pos]_vars

\* C5: vformat of a text whose length meets or exceeds remaining(), on a
\* stream whose buffer cannot provide length + 1 bytes, raises the bounds
\* failure ("write", "text", position, requested size, remaining space) and
\* leaves the position where it was.
FormatBoundsFailure ==
    (last.op = "vformat" /\ ~m_Buffer.own /\ last.n >= last.r0)
        => /\ last.out = "bounds"
           /\ last.exc = <<"write", "text", m_Pos, last.n + 1,
                           remaining(Machine)>>
           /\ last.n + 1 > remaining(Machine)
           /\ m_Pos = last.p0

FormatBoundsFailureWitness ==
    /\ last.op = "vformat" /\ ~m_Buffer.own /\ last.out = "bounds"
    /\ last.n = 2 /\ last.r0 = 1 /\ last.exc = <<"write", "text", 0, 3, 1>>

\* C6 as stated: a rendering longer than the final capacity, after the one
\* growth attempt failed, is cut to remaining() bytes and the position ends
\* at the old position plus that count.
FormatTruncates ==
    (last.op = "vformat" /\ ~m_Buffer.own /\ last.n > last.r0)
        => /\ last.out = "ok"
           /\ m_Pos = last.p0 + last.r0

\* C6, amended: vformat never advances by a truncated count.  When it
\* returns, the position is the old position plus the full rendered length,
\* which is less than the space remaining when it was rendered; when the
\* growth attempt fails it ends in the bounds failure, the position unmoved
\* and no byte stored outside the view.
FormatNeverTruncates ==
    [][last'.op = "vformat"
          => /\ last'.out = "ok"
                => /\ m_Pos' = m_Pos + last'.n
                   /\ m_Pos' < m_Size'
             /\ last'.out # "ok"
                => /\ last'.out = "bounds"
                   /\ m_Pos' = m_Pos
                   /\ \A i \in 1..Len(m_Buffer.data) :
                        (i <= m_Pos \/ i > m_Size)
                            => m_Buffer'.data[i] = m_Buffer.data[i]]_vars

\* the first rendering filled the one remaining byte with the terminator
\* and the failed growth ended the call
FormatNeverTruncatesWitness ==
    /\ last.op = "vformat" /\ last.out = "bounds" /\ ~m_Buffer.own
    /\ last.n > last.r0 /\ last.r0 = 1 /\ last.rend = 1 /\ last.ovf = 1
    /\ m_Buffer.data[m_Pos + 1] = NUL

\* C7: on an owning stream vformat calls overflow exactly when the rendered
\* length L meets or exceeds remaining(), at most once, renders once more
\* after the growth, returns L and ends at p + L with the L rendered bytes at
\* [p, p + L) and, after a growth, a byte of capacity left past the position.
FormatGrowRetry ==
    (last.op = "vformat" /\ m_Buffer.own)
        => /\ last.out = "ok"
           /\ last.ovf = (IF last.n >= last.r0 THEN 1 ELSE 0)
           /\ last.rend = 1 + last.ovf
           /\ last.rv = last.n
           /\ m_Pos = last.p0 + last.n
           /\ Bytes(last.p0, last.n) = Text(last.n)
           /\ last.ovf = 1 => m_Size >= m_Pos + 1

\* one byte rendered into one remaining byte, which holds only the
\* terminator, then rendered again after the growth, the terminator in the
\* byte past the new position
FormatGrowRetryWitness ==
    /\ last.op = "vformat" /\ m_Buffer.own /\ last.out = "ok"
    /\ last.ovf = 1 /\ last.rend = 2 /\ last.n = 1 /\ last.r0 = 1
    /\ m_Pos = 1 /\ m_Size = 2 /\ m_Buffer.data = Text(1) \o <<NUL>>

\* C8: writing a flag pseudo-value changes neither the position, nor the
\* view, nor the buffer: oct, dec, hex set the base to 8, 10, 16, left and
\* right set their flag and clear the other, any other value is added to the
\* flags; left and right are never both set and the base is 8, 10 or 16.
FlagsOnlyFormatting ==
    [][last'.op = "iwrite(fmtflags)"
          => /\ UNCHANGED <<m_Pos, m_Size, m_Buffer>>
             /\ m_Base' = (CASE last'.f = oct -> 8
                             [] last'.f = dec -> 10
                             [] last'.f = hex -> 16
                             [] OTHER -> m_Base)
             /\ m_Flags' = (CASE last'.f \in {oct, dec, hex} -> m_Flags
                              [] last'.f = left
                                   -> (m_Flags \cup {left}) \ {right}
                              [] last'.f = right
                                   -> (m_Flags \cup {right}) \ {left}
                              [] OTHER -> m_Flags \cup {last'.f})
             /\ ~(left \in m_Flags' /\ right \in m_Flags')
             /\ m_Base' \in {8, 10, 16}]_vars

\* right written after left, on a stream that holds written bytes
FlagsOnlyFormattingWitness ==
    /\ last.op = "iwrite(fmtflags)" /\ last.f = right
    /\ m_Flags = {right, scientific} /\ m_Base = 16
    /\ m_Pos = 2 /\ Bytes(0, 2) = Text(2)

\* C9: flush leaves the owned buffer's size equal to the position and the
\* bytes before the position, the position and the formatting state as they
\* were; a flush that follows a flush changes nothing.
FlushTruncates ==
    [][(last'.op = "flush" /\ m_Buffer.own)
          => /\ last'.out = "ok"
             /\ m_Buffer'.size = m_Pos'
             /\ UNCHANGED <<m_Pos, m_Flags, m_Base>>
             /\ \A i \in 1..m_Pos : m_Buffer'.data[i] = m_Buffer.data[i]
             /\ last.op = "flush"
                  => UNCHANGED <<m_Pos, m_Size, m_Buffer, m_Flags, m_Base>>]_vars

\* a flush that cut unused space off a buffer holding written bytes
FlushTruncatesWitness ==
    /\ last.op = "flush" /\ m_Buffer.own
    /\ m_Pos = 1 /\ m_Buffer.size = 1 /\ m_Size = 2
    /\ Bytes(0, 2) = Text(2) /\ hex \notin m_Flags /\ m_Base = 8

\* C10: a stream constructed from a string of length L holds that string
\* and stands at position L.
ConstructedAtEnd ==
    (last.op = "ctor" /\ m_Buffer.own)
        => /\ m_Buffer.size = last.n
           /\ Bytes(0, last.n) = Content(last.n)
           /\ m_Pos = last.n

\* C11: a typed write of a value of s bytes is permitted when the position
\* is a multiple of min(s, default alignment) and at least s bytes remain.
\* A permitted write stores the s bytes of the value at [position,
\* position + s), changes no other byte and advances the position by s; a
\* write that is not permitted ends in a fatal failure with the storage and
\* the position as they were.
TypedWriteChecked ==
    [][last'.op = "ostream::iwrite" =>
        LET s == last'.n
            g == min(s, c_DefaultAlignment)
        IN  IF m_Pos % g = 0 /\ m_Size - m_Pos >= s
            THEN /\ last'.out = "ok"
                 /\ m_Pos' = m_Pos + s
                 /\ m_Size' = m_Size
                 /\ Len(m_Buffer'.data) = Len(m_Buffer.data)
                 /\ \A i \in 1..Len(m_Buffer.data) :
                       m_Buffer'.data[i] =
                           IF i > m_Pos /\ i <= m_Pos + s
                           THEN Text(s)[i - m_Pos]
                           ELSE m_Buffer.data[i]
            ELSE /\ last'.out = "fatal"
                 /\ UNCHANGED <<m_Pos, m_Size, m_Buffer>>]_vars

\* a 4-byte value written at position 0 of a region of at least 4 bytes
TypedWriteCheckedWitness ==
    /\ last.op = "ostream::iwrite"
    /\ last.n = 4
    /\ last.out = "ok"
    /\ last.p0 = 0
    /\ m_Pos = 4
    /\ Bytes(0, 4) = Text(4)

\* C12: aligned(g) holds exactly when the position is a multiple of g.
\* align(g) moves the position p to the multiple q of g with q >= p and
\* q - p < g and modifies no byte, so that an aligned position stays; when
\* q is beyond the capacity it ends in a fatal failure and does not move.
AlignRoundsUp ==
    [][last'.op = "align" =>
        LET g == last'.n
            q == CHOOSE x \in m_Pos..(m_Pos + g - 1) : x % g = 0
        IN  /\ aligned(Machine, g) <=> (m_Pos % g = 0)
            /\ aligned(Machine, g) => q = m_Pos
            /\ UNCHANGED <<m_Size, m_Buffer>>
            /\ IF q <= m_Size
               THEN /\ last'.out = "ok"
                    /\ m_Pos' = q
                    /\ aligned(Machine', g)
               ELSE /\ last'.out = "fatal"
                    /\ m_Pos' = m_Pos]_vars

\* align(4) at position 1 of a region of at least 4 bytes moved to 4
AlignRoundsUpWitness ==
    /\ last.op = "align"
    /\ last.n = 4
    /\ last.out = "ok"
    /\ last.p0 = 1
    /\ m_Pos = 4

\* C13: on an owning text stream, writing true appends the 4 bytes "true"
\* and writing false the 5 bytes "false": the call returns normally, the
\* position advances by 4 or 5, and the bytes from the old position on are
\* the name, whatever the base, the width, the precision and the flags are.
BoolRendering ==
    (last.op = "iwrite(bool)" /\ m_Buffer.own)
        => /\ last.out = "ok"
           /\ last.n = IF last.f = "true" THEN 4 ELSE 5
           /\ m_Pos = last.p0 + last.n
           /\ Bytes(last.p0, last.n) = c_Names[last.f = "true"]

\* the decimal numeral of n, most significant digit first
RECURSIVE Decimal(_)
Decimal(n) ==
    (IF n \div 10 # 0 THEN Decimal(n \div 10) ELSE <<>>) \o
        <<Digits[(n % 10) + 1]>>

\* C14: for every formatting state and type string the format string is
\* '%', the decimal numeral of the width when it is not 0, '-' when left
\* is set, '.' and the decimal numeral of the precision for a non-integer
\* type, the type letters with the last one replaced by 'X' (base 16) or
\* 'o' (base 8) for an integer type and by 'E' for a non-integer type with
\* scientific set, and a terminator; the numerals have their most
\* significant digit first.
FmtStringOutput ==
    last.op = "fmtstring" =>
        LET typestr == last.f
            int == typestr[Len(typestr)] \in {"d", "u"}
            letters == SubSeq(typestr, 1, Len(typestr) - 1)
            e == IF int /\ m_Base = 16 THEN "X"
                 ELSE IF int /\ m_Base = 8 THEN "o"
                 ELSE IF ~int /\ scientific \in m_Flags THEN "E"
                 ELSE typestr[Len(typestr)]
        IN fmt = <<"%">>
                 \o (IF m_Width # 0 THEN Decimal(m_Width) ELSE <<>>)
                 \o (IF left \in m_Flags THEN <<"-">> ELSE <<>>)
                 \o (IF int THEN <<>> ELSE <<".">> \o Decimal(m_Precision))
                 \o letters \o <<e>> \o <<"">>

SprintfCapped ==
    last.op = "sprintf_iwrite" =>
        LET L == last.n
            k == IF L < 0 \/ L > 63 THEN 63 ELSE L
            x == IF last.ovf > 0 THEN last.r0 ELSE 0
        IN /\ last.rv = k
           /\ m_Buffer.own =>
                 /\ last.out = "ok"
                 /\ m_Pos = last.p0 + k
                 /\ L >= 0 =>
                       Bytes(last.p0 + x, k - x) = SubSeq(Text(L), x + 1, k)

\* a rendering of 70 bytes written to an owning stream moved it by 63
SprintfCappedWitness ==
    /\ last.op = "sprintf_iwrite"
    /\ last.n = 70
    /\ m_Buffer.own
    /\ last.out = "ok"
    /\ m_Pos = last.p0 + 63
    /\ Bytes(last.p0 + last.r0, 63 - last.r0)
           = SubSeq(Text(63), last.r0 + 1, 63)

\* C16: write_buffer of N bytes on a stream bound to a fixed external
\* region with 0 < remaining() < N copies the first remaining() bytes,
\* advances the position by that count, drops the rest and returns
\* normally, without a failure.
BestEffortWriteBuffer ==
    (/\ last.op = "write_buffer"
     /\ ~m_Buffer.own
     /\ 0 < last.r0
     /\ last.r0 < last.n)
        => /\ last.out = "ok"
           /\ m_Pos = last.p0 + last.r0
           /\ Bytes(last.p0, last.r0) = SubSeq(Text(last.n), 1, last.r0)

\* C17: on an owning stream at position p with a view of C bytes,
\* overflow(n) with n <= C - p changes neither the buffer nor the view nor
\* the position and returns C - p; with n > C - p it makes the size of the
\* buffer and the capacity of the view p + n, keeps the position and
\* returns n.  The value returned is remaining() and at least n, and the
\* capacity of the view does not decrease.
OverflowResult ==
    [][(last'.op = "overflow" /\ m_Buffer.own) =>
        LET n == last'.n
            p == m_Pos
            C == m_Size
        IN /\ last'.out = "ok"
           /\ IF n <= C - p
              THEN /\ UNCHANGED <<m_Pos, m_Size, m_Buffer>>
                   /\ last'.rv = C - p
              ELSE /\ m_Buffer'.size = p + n
                   /\ m_Size' = p + n
                   /\ m_Pos' = p
                   /\ last'.rv = n
           /\ last'.rv = remaining(Machine')
           /\ last'.rv >= n
           /\ m_Size' >= m_Size]_vars

\* overflow(1) with nothing remaining after position 1 grew the stream to 2
OverflowResultWitness ==
    /\ last.op = "overflow"
    /\ m_Buffer.own
    /\ last.n = 1
    /\ last.p0 = 1
    /\ last.r0 = 0
    /\ last.rv = 1
    /\ m_Size = 2
    /\ m_Buffer.size = 2
    /\ m_Pos = 1

\* C18: on an owning stream, after any sequence of construction from text,
\* str, write, write_buffer, vformat, overflow and flush, the capacity of
\* the view is the size of the owned buffer and the position is at most
\* that size.
ViewMatchesBuffer ==
    m_Buffer.own => (m_Size = m_Buffer.size /\ m_Pos <= m_Buffer.size)

\* C19: write_buffer ends by returning or by a bounds failure, after at
\* most two copy steps, the second one only into space obtained by the one
\* call of overflow it makes at most; no copy step copies 0 bytes, and with
\* bufSize = 0 nothing is called and nothing changes.
WriteBufferTwoSteps ==
    [][last'.op = "write_buffer" =>
        /\ last'.out \in {"ok", "bounds"}
        /\ last'.copies <= 2
        /\ last'.ovf <= 1
        /\ last'.empty = 0
        /\ last'.copies = 2 =>
              (last'.ovf = 1 /\ 0 < last'.r0 /\ last'.r0 < last'.n)
        /\ last'.n = 0 =>
              /\ UNCHANGED <<m_Pos, m_Size, m_Buffer>>
              /\ last'.out = "ok"
              /\ last'.copies = 0
              /\ last'.ovf = 0]_vars

\* 2 bytes written with 1 byte free: one copy, one growth, one more copy
WriteBufferTwoStepsWitness ==
    /\ last.op = "write_buffer"
    /\ last.out = "ok"
    /\ last.n = 2
    /\ last.r0 = 1
    /\ last.copies = 2
    /\ last.ovf = 1
    /\ m_Pos = last.p0 + 2

====
